---- MODULE Spec2Model ----
(***************************************************************************)
(* Model of gpuspec.py: GuppiRawSourceBlock, the source block that reads   *)
(* GUPPI RAW files (ASCII header blocks alternating with binary data       *)
(* blocks) and hands whole frames to a bifrost pipeline.                   *)
(*                                                                         *)
(* A file is a sequence of byte tags, "H" for a byte of a header block and *)
(* "D" for a byte of a data block.  The reader is a Python buffered binary *)
(* file: a position in the file and a closed flag.  The pipeline calls     *)
(* create_reader, then on_sequence once, then on_data repeatedly, for each *)
(* source name in turn.                                                    *)
(***************************************************************************)
EXTENDS Integers, Sequences, FiniteSets

\* ---- bounds of the model -------------------------------------------------
MaxHeaderSize == 2
MaxData == 3
MaxBlocks == 2
MaxFrameNbyte == 2
MaxGulp == 2
MaxFiles == 2
MaxCalls == 4

VARIABLES
    gulp_nframe,          \* constructor argument: frames offered per span
    always_return_0,      \* self.always_return_0
    already_read_header,  \* self.already_read_header: "unset", "True", "False"
    header_buf,           \* self.header_buf: the bytes of the bytearray
    reader,               \* the open file: [file, pos, closed]
    frame_nbyte,          \* ospan.frame_nbyte of the current sequence
    stage,                \* where the pipeline is with the current source
    nsrc,                 \* number of source names opened so far
    ncalls,               \* on_data calls made on the current stream
    delivered,            \* file offsets reported as frame data, this stream
    reported,             \* sum of the frame counts reported, this stream
    terminated,           \* this stream reported 0 because of EOF/short block
    nclose,               \* reader.close() calls made by the block, this stream
    last,                 \* what the last call did
    ihdr,                 \* the parsed header given to the derivation
    oheaders,             \* what the derivation returned: [err, oheaders]
    hpc,                  \* "idle", or "start"/"done" around the derivation
    specified_axis,       \* GrabFirstBlock: self.specified_axis
    heap,                 \* the dicts and lists of the sequence headers
    iseq_header,          \* address of iseq.header
    iseq_header0,         \* the value of iseq.header when the block was built
    g_ohdr,               \* address of the header on_sequence returned, or 0
    ispan,                \* input span: [shape, data]
    ospan,                \* output span: [shape, data]
    gpc,                  \* "idle", "new", "sequence", "spans", "data"
    glast                 \* what GrabFirstBlock.on_data did

\* the fields of the source block and of its reader
svars == <<gulp_nframe, always_return_0, already_read_header, header_buf,
           reader, frame_nbyte, stage, nsrc, ncalls, delivered, reported,
           terminated, nclose, last>>

\* the derivation of one output header on its own
hvars == <<ihdr, oheaders, hpc>>

\* the GrabFirstBlock transform on its own
gvars == <<specified_axis, heap, iseq_header, iseq_header0, g_ohdr, ispan, ospan,
           gpc, glast>>

vars == <<svars, hvars, gvars>>

Min(a, b) == IF a < b THEN a ELSE b

\* ---- files ----------------------------------------------------------------
Rep(t, n) == [i \in 1..n |-> t]

RECURSIVE BlockBytes(_, _)
\* hs header bytes then ds[i] data bytes, for each block i
BlockBytes(hs, ds) ==
    IF ds = <<>> THEN <<>>
    ELSE Rep("H", hs) \o Rep("D", Head(ds)) \o BlockBytes(hs, Tail(ds))

DataSizes == UNION {[1..n -> 1..MaxData] : n \in 1..MaxBlocks}

\* every file starts with one complete header block; it may end anywhere after
Files ==
    UNION { { SubSeq(BlockBytes(hs, ds), 1, len) :
                len \in hs..Len(BlockBytes(hs, ds)) } :
            hs \in 1..MaxHeaderSize, ds \in DataSizes }

\* values of NBITS a header may carry
NBitsSample == {0, 4, 8, 12, 16, 32, 64}

NoLast ==
    [op |-> "none", err |-> "none", ret |-> 0, cause |-> "none", hskip |-> 0,
     nbyte |-> 0, dfrom |-> 0, pos0 |-> 0, span |-> 0, nbits |-> 0,
     emitted |-> FALSE, term_before |-> FALSE, ar0_before |-> FALSE,
     arh_before |-> "unset", closed_before |-> FALSE]

\* ---- header values ---------------------------------------------------------
\* Python values of a header: None, a number (an exact fraction n/d, d > 0,
\* in lowest terms) and a string
None == [t |-> "None"]
Str(x) == [t |-> "str", s |-> x]

Abs(x) == IF x < 0 THEN -x ELSE x

RECURSIVE GCD(_, _)
GCD(a, b) == IF b = 0 THEN Abs(a) ELSE GCD(b, a % b)

\* the fraction n/d (d # 0) in lowest terms
Num(n, d) ==
    LET g == GCD(Abs(n), Abs(d))
        sg == IF d < 0 THEN -1 ELSE 1
    IN [t |-> "num", n |-> sg * (n \div g), d |-> sg * (d \div g)]

Whole(n) == Num(n, 1)

\* a * b, reduced crosswise before the products are formed
RMul(a, b) ==
    LET g1 == GCD(Abs(a.n), b.d)
        g2 == GCD(Abs(b.n), a.d)
    IN Num((a.n \div g1) * (b.n \div g2), (a.d \div g2) * (b.d \div g1))

\* a / b, b # 0
RDiv(a, b) == RMul(a, Num(b.d, b.n))

RAdd(a, b) ==
    LET g == GCD(a.d, b.d)
    IN Num(a.n * (b.d \div g) + b.n * (a.d \div g), (a.d \div g) * b.d)

RSub(a, b) == RAdd(a, Num(-b.n, b.d))

\* abs(a)
RAbs(a) == Num(Abs(a.n), a.d)

\* obj[key] if key in obj else default
get_with_default(obj, key, default) ==
    IF key \in DOMAIN obj THEN obj[key] ELSE default

\* (mjd - 40587) * 86400
mjd2unix(mjd) == RMul(RSub(mjd, Whole(40587)), Whole(86400))

\* ---- the reader -----------------------------------------------------------
\* variant: the read ignores the size of the buffer
readinto_rest(rd, size) == Len(rd.file) - rd.pos

\* reader.readinto(buf) with len(buf) = size: bytes read from an open file
readinto(rd, size) == Min(size, Len(rd.file) - rd.pos)

\* guppi_raw.read_header(reader): the bytes of the header block at the position
read_header(rd) ==
    LET rest == SubSeq(rd.file, rd.pos + 1, Len(rd.file))
        RECURSIVE Run(_)
        Run(s) == IF s # <<>> /\ Head(s) = "H" THEN 1 + Run(Tail(s)) ELSE 0
    IN Run(rest)

\* no header derivation is followed on its own
HdrIdle ==
    /\ ihdr = <<>>
    /\ oheaders = [err |-> "none", oheaders |-> <<>>]
    /\ hpc = "idle"

NoSpan == [shape |-> <<>>, data |-> <<>>]

\* no GrabFirstBlock is followed
GrabIdle ==
    /\ specified_axis = 0
    /\ heap = <<>>
    /\ iseq_header = 0
    /\ iseq_header0 = <<>>
    /\ g_ohdr = 0
    /\ ispan = NoSpan
    /\ ospan = NoSpan
    /\ gpc = "idle"
    /\ glast = [op |-> "none", err |-> "none"]

\* a source block just constructed, no source opened yet
BlockInit ==
    /\ always_return_0 = FALSE
    /\ already_read_header = "unset"
    /\ header_buf = <<>>
    /\ reader = [file |-> <<>>, pos |-> 0, closed |-> TRUE]
    /\ frame_nbyte = 1
    /\ stage = "idle"
    /\ nsrc = 0
    /\ ncalls = 0
    /\ delivered = {}
    /\ reported = 0
    /\ terminated = FALSE
    /\ nclose = 0
    /\ last = NoLast

Init ==
    /\ gulp_nframe \in 1..MaxGulp
    /\ BlockInit
    /\ HdrIdle
    /\ GrabIdle

\* create_reader(sourcename): the pipeline opens the next source once the
\* current one has reported 0 frames
create_reader ==
    /\ nsrc < MaxFiles
    /\ \/ stage = "idle"
       \/ stage = "streaming" /\ last.op = "on_data" /\ last.ret = 0
    /\ \E f \in Files :
          reader' = [file |-> f, pos |-> 0, closed |-> FALSE]
    /\ nsrc' = nsrc + 1
    /\ stage' = "opened"
    /\ ncalls' = 0
    /\ delivered' = {}
    /\ reported' = 0
    /\ terminated' = FALSE
    /\ nclose' = 0
    /\ last' = [NoLast EXCEPT !.op = "create_reader"]
    /\ UNCHANGED <<gulp_nframe, always_return_0, already_read_header,
                   header_buf, frame_nbyte>>
    /\ UNCHANGED <<hvars, gvars>>

\* variant: a range check instead of the set of bit widths
ValidNBitsRange == 4..64

\* assert(nbit in set([4,8,16,32,64]))
ValidNBits == {4, 8, 16, 32, 64}

\* ---- the derivation of the output header ---------------------------------
RequiredKeys ==
    {"NBITS", "OBSNCHAN", "OBSBW", "OBSFREQ", "PKTIDX", "PKTSIZE", "BLOCSIZE",
     "NTIME", "NPOL", "STT_IMJD", "STT_SMJD"}

OptionalKeys ==
    {"AZ", "ZA", "RA", "DEC", "SRC_NAME", "CHAN_DM", "TELESCOP", "BACKEND"}

\* the value a sample header gives to each key other than the ones varied
SampleValue(k) ==
    CASE k = "OBSFREQ" -> Whole(1000)
      [] k = "PKTIDX" -> Whole(0)
      [] k = "PKTSIZE" -> Whole(8192)
      [] k = "NPOL" -> Whole(2)
      [] k = "STT_IMJD" -> Whole(57388)
      [] k = "STT_SMJD" -> Whole(0)
      [] k = "AZ" -> Whole(10)
      [] k = "ZA" -> Whole(20)
      [] k = "DEC" -> Whole(-30)
      [] k = "SRC_NAME" -> Str("HIP113357")
      [] k = "CHAN_DM" -> Whole(0)
      [] k = "TELESCOP" -> Str("GBT")
      [] k = "BACKEND" -> Str("GUPPI")
      [] OTHER -> None

\* a parsed header: the keys it holds mapped to their values.  BLOCSIZE is
\* 16 bytes per fine-time sample, so BLOCSIZE / NTIME is exact.
MkHeader(keys, nbits, bw, nchan, ntime, ra) ==
    [k \in keys |->
        CASE k = "NBITS" -> Whole(nbits)
          [] k = "OBSBW" -> Whole(bw)
          [] k = "OBSNCHAN" -> Whole(nchan)
          [] k = "NTIME" -> Whole(ntime)
          [] k = "BLOCSIZE" -> Whole(16 * ntime)
          [] k = "RA" -> Whole(ra)
          [] OTHER -> SampleValue(k)]

\* values of OBSBW, OBSNCHAN, NTIME and RA of the sample headers
BwSample == {-4, -1, 0, 3}
NChanSample == {1, 2}
NTimeSample == {1, 4}
RaSample == {45}

\* the headers of the files the stream reads: NBITS varies, RA is there or not
StreamHeaders ==
    { MkHeader(RequiredKeys \cup opt, nbits, 3, 2, 4, 45) :
        opt \in {OptionalKeys, OptionalKeys \ {"RA"}}, nbits \in NBitsSample }

\* df_MHz = bw_MHz / nchan
df_MHz(bw_MHz, nchan) == RDiv(bw_MHz, nchan)

\* f0_MHz = cfreq_MHz - 0.5*(nchan-1)*df_MHz
f0_MHz(cfreq_MHz, nchan, df) ==
    RSub(cfreq_MHz, RMul(RMul(Num(1, 2), RSub(nchan, Whole(1))), df))

\* dt_s = 1. / df_MHz / 1e6
dt_s(df) == RDiv(RDiv(Whole(1), df), Whole(1000000))

\* variant: the sign of dt is kept in the step of the frame axis
FrameStepSigned(dt, ntime) == RMul(dt, ntime)

\* abs(dt_s)*ihdr['NTIME']: the step of the 'time' (frame) axis
FrameStep(dt, ntime) == RMul(RAbs(dt), ntime)

\* get_with_default(ihdr, 'RA')*(24./360.)
raj(h) == RMul(get_with_default(h, "RA", None), Num(24, 360))

\* tstart_unix, from byte_offset, frame_nbyte, bytes_per_sec, offset_secs and
\* tstart_mjd (all divisors nonzero)
tstart_unix(h, dt) ==
    LET byte_offset == RMul(h["PKTIDX"], h["PKTSIZE"])
        frame_nbyte_raw == RDiv(h["BLOCSIZE"], h["NTIME"])
        bytes_per_sec == RDiv(frame_nbyte_raw, dt)
        offset_secs == RDiv(byte_offset, bytes_per_sec)
        tstart_mjd == RAdd(h["STT_IMJD"],
                           RDiv(RAdd(h["STT_SMJD"], offset_secs), Whole(86400)))
    IN mjd2unix(tstart_mjd)

\* the output header built from a header that passed every check.  time_tag
\* is int(round(tstart_unix * 2**32)); it is kept as the fixed-point form of
\* tstart_unix with 32 fractional bits.
OutputHeader(h, sourcename) ==
    LET nchan == h["OBSNCHAN"]
        df == df_MHz(h["OBSBW"], nchan)
        dt == dt_s(df)
        t0 == tstart_unix(h, dt)
    IN [tensor |->
           [dtype |-> <<"ci", h["NBITS"].n>>,
            shape |-> <<Whole(-1), nchan, h["NTIME"], h["NPOL"]>>,
            labels |-> <<"time", "channel", "fine_time", "pol">>,
            scales |-> << <<t0, FrameStep(dt, h["NTIME"])>>,
                          <<f0_MHz(h["OBSFREQ"], nchan, df), df>>,
                          <<Whole(0), dt>>,
                          None >>,
            units |-> <<Str("s"), Str("MHz"), Str("s"), None>>],
        az_start |-> get_with_default(h, "AZ", None),
        za_start |-> get_with_default(h, "ZA", None),
        raj |-> raj(h),
        dej |-> get_with_default(h, "DEC", None),
        source_name |-> get_with_default(h, "SRC_NAME", None),
        refdm |-> get_with_default(h, "CHAN_DM", None),
        refdm_units |-> Str("pc cm^-3"),
        telescope |-> get_with_default(h, "TELESCOP", None),
        machine |-> get_with_default(h, "BACKEND", None),
        rawdatafile |-> sourcename,
        coord_frame |-> Str("topocentric"),
        time_tag |-> [fixed_point_bits |-> 32, of |-> t0],
        name |-> sourcename]

\* the first statement of on_sequence's derivation that raises, in the order
\* of the code, or "none"
DeriveError(h) ==
    LET has(ks) == ks \subseteq DOMAIN h
        zero(k) == h[k].n = 0
    IN IF ~has({"NBITS"}) THEN "KeyError"
       ELSE IF ~(h["NBITS"].d = 1 /\ h["NBITS"].n \in ValidNBits)
       THEN "AssertionError"
       ELSE IF ~has({"OBSNCHAN", "OBSBW", "OBSFREQ"}) THEN "KeyError"
       ELSE IF zero("OBSNCHAN") \/ zero("OBSBW") THEN "ZeroDivisionError"
       ELSE IF ~has({"PKTIDX", "PKTSIZE", "BLOCSIZE", "NTIME"}) THEN "KeyError"
       ELSE IF zero("NTIME") \/ zero("BLOCSIZE") THEN "ZeroDivisionError"
       ELSE IF ~has({"STT_IMJD", "STT_SMJD", "NPOL"}) THEN "KeyError"
       ELSE IF get_with_default(h, "RA", None) = None THEN "TypeError"
       ELSE "none"

\* on_sequence's return value: the error raised, or [ohdr]
Derive(h, sourcename) ==
    LET e == DeriveError(h)
    IN IF e = "none"
       THEN [err |-> e, oheaders |-> <<OutputHeader(h, sourcename)>>]
       ELSE [err |-> e, oheaders |-> <<>>]

\* variant: on_sequence leaves the header marked as still to be skipped
HeaderReadFlagCleared == "False"

\* self.already_read_header = True, at the end of on_sequence
HeaderReadFlag == "True"

\* on_sequence(reader, sourcename): parse the header block at the position,
\* size header_buf to it, derive the output header (NBITS is checked there),
\* mark the header as read.  h is the header parsed and fnb the frame size the
\* pipeline derives from the emitted tensor for the spans of this sequence.
on_sequence ==
    /\ stage = "opened"
    /\ \E h \in StreamHeaders, fnb \in 1..MaxFrameNbyte :
       \E d \in {Derive(h, nsrc)} :
          LET header_size == read_header(reader)
              ok == d.err = "none"
          IN /\ reader' = [reader EXCEPT !.pos = @ + header_size]
             /\ header_buf' = Rep("0", header_size)
             /\ already_read_header' =
                    IF ok THEN HeaderReadFlag ELSE already_read_header
             /\ frame_nbyte' = IF ok THEN fnb ELSE frame_nbyte
             /\ stage' = IF ok THEN "streaming" ELSE "stopped"
             /\ last' = [NoLast EXCEPT
                           !.op = "on_sequence",
                           !.err = d.err,
                           !.emitted = (d.oheaders # <<>>),
                           !.nbits = h["NBITS"].n,
                           !.pos0 = reader.pos,
                           !.hskip = header_size,
                           !.ar0_before = always_return_0,
                           !.arh_before = already_read_header,
                           !.closed_before = reader.closed]
    /\ UNCHANGED <<gulp_nframe, always_return_0, nsrc, ncalls, delivered,
                   reported, terminated, nclose>>
    /\ UNCHANGED <<hvars, gvars>>

\* variant: only a read of less than one frame counts as truncated
IsShortBelowOneFrame(nbyte, fnb) == nbyte > 0 /\ nbyte < fnb

\* if nbyte % ospan.frame_nbyte:
IsShort(nbyte, fnb) == nbyte % fnb # 0

\* variant: one frame reported per call, whatever was read
NFrameOne(nbyte, fnb) == IF nbyte >= fnb THEN 1 ELSE 0

\* nframe = nbyte // ospan.frame_nbyte
NFrame(nbyte, fnb) == nbyte \div fnb

\* variant: the file is closed but always_return_0 is not set
TruncatedDataNoFlag(rd) ==
    [reader |-> [rd EXCEPT !.closed = TRUE], always_return_0 |-> FALSE, ret |-> 0]

\* variant: always_return_0 is set but the file is left open
TruncatedDataNoClose(rd) ==
    [reader |-> rd, always_return_0 |-> TRUE, ret |-> 0]

\* reader.close(); self.always_return_0 = True; return [0]
TruncatedData(rd) ==
    [reader |-> [rd EXCEPT !.closed = TRUE], always_return_0 |-> TRUE, ret |-> 0]

\* the data part of on_data: read into the span, report whole frames
FillSpan(rd, arh, hb, hskip, fnb, span) ==
    LET base == [err |-> "none", ret |-> 0, cause |-> "none", hskip |-> hskip,
                 nbyte |-> 0, dfrom |-> rd.pos, reader |-> rd,
                 always_return_0 |-> FALSE, already_read_header |-> arh,
                 header_buf |-> hb]
        nbyte == readinto(rd, span)
        rd2 == [rd EXCEPT !.pos = @ + nbyte]
    IN IF rd.closed
       THEN [base EXCEPT !.err = "ValueError", !.cause = "error"]
       ELSE IF IsShort(nbyte, fnb)
       THEN LET t == TruncatedData(rd2)
            IN [base EXCEPT !.nbyte = nbyte, !.cause = "short",
                            !.reader = t.reader,
                            !.always_return_0 = t.always_return_0,
                            !.ret = t.ret]
       ELSE [base EXCEPT !.nbyte = nbyte, !.reader = rd2,
                         !.ret = NFrame(nbyte, fnb),
                         !.cause = IF nbyte = 0 THEN "eof" ELSE "frames"]

\* on_data(reader, ospans) as a function of the block's fields and the span
Fill(rd, arh, ar0, hb, fnb, span) ==
    LET base == [err |-> "none", ret |-> 0, cause |-> "none", hskip |-> 0,
                 nbyte |-> 0, dfrom |-> rd.pos, reader |-> rd,
                 always_return_0 |-> ar0, already_read_header |-> arh,
                 header_buf |-> hb]
    IN IF ar0
       THEN [base EXCEPT !.cause = "exhausted"]
       ELSE IF arh = "unset"
       THEN [base EXCEPT !.err = "AttributeError", !.cause = "error"]
       ELSE IF arh = "False"
       THEN \* Skip over header
            IF rd.closed
            THEN [base EXCEPT !.err = "ValueError", !.cause = "error"]
            ELSE LET n1 == readinto(rd, Len(hb))
                     rd1 == [rd EXCEPT !.pos = @ + n1]
                     hb1 == [i \in 1..Len(hb) |->
                                IF i <= n1 THEN rd.file[rd.pos + i] ELSE hb[i]]
                 IN IF n1 = 0
                    THEN [base EXCEPT !.cause = "eof"]
                    ELSE IF n1 < Len(hb)
                    THEN [base EXCEPT !.err = "IOError", !.cause = "error",
                                      !.hskip = n1, !.reader = rd1,
                                      !.header_buf = hb1]
                    ELSE FillSpan(rd1, "False", hb1, n1, fnb, span)
       ELSE FillSpan(rd, arh, hb, 0, fnb, span)

\* on_data(reader, ospans): one fill call; the span holds gulp_nframe frames
on_data ==
    /\ stage = "streaming"
    /\ ncalls < MaxCalls
    /\ LET span == gulp_nframe * frame_nbyte
           o == Fill(reader, already_read_header, always_return_0, header_buf,
                     frame_nbyte, span)
       IN /\ reader' = o.reader
          /\ always_return_0' = o.always_return_0
          /\ already_read_header' = o.already_read_header
          /\ header_buf' = o.header_buf
          /\ stage' = IF o.err = "none" THEN "streaming" ELSE "stopped"
          /\ delivered' = IF o.ret > 0
                          THEN delivered \cup ((o.dfrom + 1)..(o.dfrom + o.nbyte))
                          ELSE delivered
          /\ reported' = reported + o.ret
          /\ terminated' = (terminated \/ o.cause \in {"eof", "short"})
          /\ nclose' = IF o.cause = "short" THEN nclose + 1 ELSE nclose
          /\ last' = [NoLast EXCEPT
                        !.op = "on_data", !.err = o.err, !.ret = o.ret,
                        !.cause = o.cause, !.hskip = o.hskip,
                        !.nbyte = o.nbyte, !.dfrom = o.dfrom,
                        !.pos0 = reader.pos, !.span = span,
                        !.term_before = terminated,
                        !.ar0_before = always_return_0,
                        !.arh_before = already_read_header,
                        !.closed_before = reader.closed]
    /\ ncalls' = ncalls + 1
    /\ UNCHANGED <<gulp_nframe, frame_nbyte, nsrc>>
    /\ UNCHANGED <<hvars, gvars>>

Next == create_reader \/ on_sequence \/ on_data

Spec == Init /\ [][Next]_vars

\* ---- the derivation followed on its own ----------------------------------
\* a source block with no source opened, and a parsed header to derive from:
\* every subset of the optional keys, with every required key or with NPOL
\* left out
HdrInit ==
    /\ gulp_nframe = 1
    /\ BlockInit
    /\ \E drop \in {{}, {"NPOL"}}, opt \in SUBSET OptionalKeys,
          nbits \in NBitsSample, bw \in BwSample, nchan \in NChanSample,
          ntime \in NTimeSample, ra \in RaSample :
          ihdr = MkHeader((RequiredKeys \ drop) \cup opt,
                          nbits, bw, nchan, ntime, ra)
    /\ oheaders = [err |-> "none", oheaders |-> <<>>]
    /\ hpc = "start"
    /\ GrabIdle

\* lines 31-79 of on_sequence on the parsed header ihdr
derive_header ==
    /\ hpc = "start"
    /\ oheaders' = Derive(ihdr, "blc1.raw")
    /\ hpc' = "done"
    /\ UNCHANGED <<ihdr, svars, gvars>>

HdrNext == derive_header

HdrSpec == HdrInit /\ [][HdrNext]_vars

\* ---- GrabFirstBlock ------------------------------------------------------
\* largest extent of an axis, and most frames in a span
MaxDim == 2
MaxSpanFrames == 2

\* addresses of the heap that holds the header dicts and their lists
Addrs == 1..6
Free == [t |-> "free"]

\* the first address not in use
NewAddr(hp) == CHOOSE a \in Addrs : hp[a] = Free /\ \A b \in 1..(a - 1) : hp[b] # Free

\* a sequence header: the dict at address 1 holds its '_tensor' dict by
\* address, which holds its 'shape' list by address
HeaderHeap(shape) ==
    [a \in Addrs |->
        CASE a = 1 -> [t |-> "dict", tensor |-> 2, name |-> "iseq"]
          [] a = 2 -> [t |-> "dict", shape |-> 3, dtype |-> <<"f", 32>>]
          [] a = 3 -> [t |-> "list", items |-> shape]
          [] OTHER -> Free]

\* variant: copy(ihdr), a new outer dict that shares the '_tensor' dict
copy_shallow(hp, a) ==
    LET a1 == NewAddr(hp)
    IN [heap |-> [hp EXCEPT ![a1] = hp[a]], addr |-> a1]

\* deepcopy(ihdr): new dicts and a new list, equal in value
deepcopy(hp, a) ==
    LET a1 == NewAddr(hp)
        hp1 == [hp EXCEPT ![a1] = hp[a]]
        a2 == NewAddr(hp1)
        hp2 == [hp1 EXCEPT ![a2] = hp[hp[a].tensor], ![a1].tensor = a2]
        a3 == NewAddr(hp2)
        hp3 == [hp2 EXCEPT ![a3] = hp[hp[hp[a].tensor].shape],
                           ![a2].shape = a3]
    IN [heap |-> hp3, addr |-> a1]

\* the value of the header at address a: its dicts and lists followed
HeaderValue(hp, a) ==
    [name |-> hp[a].name,
     tensor |-> [dtype |-> hp[hp[a].tensor].dtype,
                 shape |-> hp[hp[hp[a].tensor].shape].items]]

\* the addresses the header at address a is made of
HeaderAddrs(hp, a) == {a, hp[a].tensor, hp[hp[a].tensor].shape}

\* the index tuples (i, j, k, l) of an array of the given shape
Indices(shape) ==
    { <<i, j, k, l>> : i \in 0..(shape[1] - 1), j \in 0..(shape[2] - 1),
                       k \in 0..(shape[3] - 1), l \in 0..(shape[4] - 1) }

\* an input array whose elements all differ
SampleData(shape, base) ==
    [x \in Indices(shape) |->
        base + 1 + ((x[1] * shape[2] + x[2]) * shape[3] + x[3]) * shape[4] + x[4]]

\* the content of an output span nobody has written, and what a read outside
\* an array may give
Stale(shape) == [x \in Indices(shape) |-> -1]
Garbage == {-2, -3}

\* variant: the last element of the fourth axis is copied
bf_map_last(shape, a, b, g) ==
    [x \in DOMAIN b |->
        LET ls == {y[4] : y \in {z \in DOMAIN a : z[1] = x[1] /\ z[2] = x[2]
                                                  /\ z[3] = x[3]}}
        IN IF ls = {} THEN g
           ELSE a[<<x[1], x[2], x[3], CHOOSE m \in ls : \A n \in ls : n <= m>>]]

\* bf.map("b(i, j, k, l) = a(i, j, k, l)", shape, 'i', 'j', 'k', 'l', a=, b=):
\* the new content of b; an index outside a reads whatever lies there, g
bf_map(shape, a, b, g) ==
    [x \in DOMAIN b |->
        IF x \notin Indices(shape) THEN b[x]
        ELSE IF x \in DOMAIN a THEN a[x] ELSE g]

\* grab_first(iring, axis) on an input sequence with a header of 4 axes
GrabInit ==
    /\ gulp_nframe = 1
    /\ BlockInit
    /\ HdrIdle
    /\ specified_axis \in 0..3
    /\ \E c \in 1..MaxDim, tt \in 1..MaxDim, pp \in 1..MaxDim :
          heap = HeaderHeap(<<-1, c, tt, pp>>)
    /\ iseq_header = 1
    /\ iseq_header0 = HeaderValue(heap, iseq_header)
    /\ g_ohdr = 0
    /\ ispan = NoSpan
    /\ ospan = NoSpan
    /\ gpc = "new"
    /\ glast = [op |-> "none", err |-> "none"]

\* GrabFirstBlock.on_sequence(iseq)
GrabFirstBlock_on_sequence ==
    /\ gpc = "new"
    /\ LET c == deepcopy(heap, iseq_header)
           shape == c.heap[c.heap[c.addr].tensor].shape
       IN /\ heap' = [c.heap EXCEPT ![shape].items[4] = 1]
          /\ g_ohdr' = c.addr
    /\ gpc' = "sequence"
    /\ glast' = [op |-> "on_sequence", err |-> "none"]
    /\ UNCHANGED <<specified_axis, iseq_header, iseq_header0, ispan, ospan,
                   svars, hvars>>

\* the pipeline hands on_data an input span of the input sequence, whose data
\* has the extents the sequence was announced with, and an output span, whose
\* extents a caller may have chosen freely
reserve_spans ==
    /\ gpc = "sequence"
    /\ \E n \in 1..MaxSpanFrames, base \in {0, 100},
          c \in 1..MaxDim, tt \in 1..MaxDim, q \in 1..MaxDim :
          LET ishape == [iseq_header0.tensor.shape EXCEPT ![1] = n]
          IN /\ ispan' = [shape |-> ishape, data |-> SampleData(ishape, base)]
             /\ ospan' = [shape |-> <<n, c, tt, q>>, data |-> Stale(<<n, c, tt, q>>)]
    /\ gpc' = "spans"
    /\ glast' = [op |-> "reserve_spans", err |-> "none"]
    /\ UNCHANGED <<specified_axis, heap, iseq_header, iseq_header0, g_ohdr,
                   svars, hvars>>

\* GrabFirstBlock.on_data(ispan, ospan).  The kernel checks no bounds: when
\* the output shape reaches outside the input array the read is undefined,
\* it gives some value g or the call fails with the device's error.
GrabFirstBlock_on_data ==
    /\ gpc = "spans"
    /\ \E g \in Garbage, fault \in BOOLEAN :
          /\ fault => ~(Indices(ospan.shape) \subseteq DOMAIN ispan.data)
          /\ ospan' = IF fault THEN ospan
                      ELSE [ospan EXCEPT !.data = bf_map(ospan.shape,
                                             ispan.data, ospan.data, g)]
          /\ glast' = [op |-> "on_data",
                       err |-> IF fault THEN "RuntimeError" ELSE "none"]
    /\ gpc' = "data"
    /\ UNCHANGED <<specified_axis, heap, iseq_header, iseq_header0, g_ohdr,
                   ispan, svars, hvars>>

GrabNext ==
    GrabFirstBlock_on_sequence \/ reserve_spans \/ GrabFirstBlock_on_data

GrabSpec == GrabInit /\ [][GrabNext]_vars

\* ---- properties -----------------------------------------------------------
\* the last call was a fill call that reached its data read
DataRead == last.op = "on_data" /\ ~last.ar0_before /\ last.err = "none"
            /\ last.cause \in {"frames", "short"}

\* the file offsets the last fill call read into the span
SpanBytes == (last.dfrom + 1)..(last.dfrom + last.nbyte)

\* C1: once a fill call of a stream has reported 0 frames because of
\* end-of-file or a trailing short block, every later fill call on that
\* stream reports 0 frames, and raises nothing.
C1_MonotoneTermination ==
    (last.op = "on_data" /\ last.term_before) =>
        (last.ret = 0 /\ last.err = "none")

C1_Witness ==
    /\ last.op = "on_data" /\ last.term_before
    /\ last.cause = "exhausted" /\ last.ret = 0 /\ ncalls >= 2

\* C2: a fill call whose data read returns n > 0 bytes with n not a multiple
\* of frame_nbyte reports 0 frames, raises nothing, closes the file, sets
\* always_return_0, and none of the bytes it read is reported as frame data.
C2_TrailingShortBlock ==
    (DataRead /\ last.nbyte > 0 /\ last.nbyte % frame_nbyte # 0) =>
        /\ last.ret = 0
        /\ reader.closed
        /\ always_return_0
        /\ nclose = 1
        /\ SpanBytes \cap delivered = {}

C2_Witness ==
    /\ DataRead /\ last.nbyte > 0 /\ last.nbyte % frame_nbyte # 0
    /\ reader.closed /\ always_return_0

\* C3 as claimed: a data read that returns at least one whole frame plus a
\* partial frame reports the whole frames, drops only the partial bytes, and
\* the stream becomes Exhausted.
C3_Claim ==
    (DataRead /\ last.nbyte > frame_nbyte /\ last.nbyte % frame_nbyte # 0
        /\ \A i \in SpanBytes : reader.file[i] = "D") =>
        /\ last.ret = last.nbyte \div frame_nbyte
        /\ always_return_0

\* C3 as amended: a data read that returns at least one whole frame plus a
\* partial frame reports 0 frames: every byte of that read, the whole frames
\* included, is dropped, nothing is raised, the file is closed and
\* always_return_0 is set; and a fill call made while always_return_0 is set
\* reports 0 frames and raises nothing.
C3_TruncationDropsRead ==
    /\ (last.op = "on_data" /\ ~last.ar0_before /\ last.nbyte > frame_nbyte
           /\ last.nbyte % frame_nbyte # 0) =>
          /\ last.ret = 0
          /\ last.err = "none"
          /\ SpanBytes \cap delivered = {}
          /\ reader.closed
          /\ always_return_0
    /\ (last.op = "on_data" /\ last.ar0_before) =>
          (last.ret = 0 /\ last.err = "none" /\ last.nbyte = 0)

C3_Witness ==
    /\ last.op = "on_data" /\ ~last.ar0_before
    /\ last.nbyte > frame_nbyte /\ last.nbyte % frame_nbyte # 0
    /\ last.ret = 0 /\ always_return_0

\* the last call was the first fill call after on_sequence, on a block that
\* no earlier stream left with always_return_0 set
FirstFill == last.op = "on_data" /\ ncalls = 1 /\ ~last.ar0_before

\* C4 as claimed: the first fill call after on_sequence reads exactly
\* header_size bytes into header_buf before it reads data into the span.
C4_Claim ==
    FirstFill => last.hskip = Len(header_buf)

\* C4 as amended: the header_size bytes are consumed by on_sequence itself,
\* which leaves the reader right after the header block; the first fill call
\* after on_sequence reads nothing into header_buf, and its data read starts
\* at offset header_size, on the first byte after the header.
C4_HeaderConsumedBySequence ==
    /\ (last.op = "on_sequence") =>
          /\ Len(header_buf) = last.hskip
          /\ reader.pos = last.pos0 + Len(header_buf)
          /\ \A i \in (last.pos0 + 1)..reader.pos : reader.file[i] = "H"
          /\ reader.pos < Len(reader.file) => reader.file[reader.pos + 1] = "D"
    /\ FirstFill =>
          /\ last.hskip = 0
          /\ last.err = "none"
          /\ last.dfrom = Len(header_buf)
          /\ \A i \in SpanBytes : i = last.dfrom + 1 => reader.file[i] = "D"

C4_Witness ==
    FirstFill /\ last.nbyte > 0 /\ last.hskip = 0 /\ last.dfrom = Len(header_buf)

\* the current file is made of (header block, data block) pairs, every header
\* as long as the first and every data block a whole number of frames
BlockStructured ==
    /\ stage = "streaming"
    /\ \E ds \in DataSizes :
          /\ reader.file = BlockBytes(Len(header_buf), ds)
          /\ \A b \in 1..Len(ds) : ds[b] % frame_nbyte = 0

\* C5: for a file of (header block, data block) pairs, every byte reported
\* as frame data is a byte of a data block (header blocks are skipped, never
\* delivered), and when the stream reaches the end of the file no data byte
\* has been left out.
C5_Claim ==
    BlockStructured =>
        /\ \A i \in delivered : reader.file[i] = "D"
        /\ (last.op = "on_data" /\ last.cause = "eof") =>
              \A i \in 1..Len(reader.file) :
                  reader.file[i] = "D" => i \in delivered

\* the current stream is the block's first source, and its file is one header
\* block followed by whole frames of data only
WholeFrames ==
    /\ nsrc = 1 /\ stage = "streaming"
    /\ \A i \in (Len(header_buf) + 1)..Len(reader.file) : reader.file[i] = "D"
    /\ (Len(reader.file) - Len(header_buf)) % frame_nbyte = 0
    /\ Len(reader.file) > Len(header_buf)

\* the number of frames of data in the file
KFrames == (Len(reader.file) - Len(header_buf)) \div frame_nbyte

C7_WholeFrameFill ==
    /\ last.op = "on_data" => last.nbyte <= last.span
    /\ (DataRead /\ last.nbyte > 0 /\ last.nbyte % frame_nbyte = 0) =>
          /\ last.ret * frame_nbyte = last.nbyte
          /\ ~reader.closed
          /\ ~always_return_0
          /\ stage = "streaming"

C7_Witness ==
    /\ DataRead /\ last.nbyte > 0 /\ last.nbyte % frame_nbyte = 0
    /\ last.ret >= 2

\* what a fill call reports from the file's bytes alone: the whole frames of
\* the bytes available to the span, or 0 when they end inside a frame
OwnFrames ==
    LET n == Min(last.span, Len(reader.file) - last.pos0)
    IN IF n % frame_nbyte = 0 THEN n \div frame_nbyte ELSE 0

\* C8: every source file starts with its own stream state: always_return_0
\* is clear when its sequence starts, and until the stream itself has ended
\* its fill calls report the frames its own bytes give, whatever happened on
\* the files before it.
C8_Claim ==
    /\ (last.op = "on_sequence" /\ last.err = "none") => ~always_return_0
    /\ (last.op = "on_data" /\ ~last.term_before /\ last.err = "none") =>
          last.ret = OwnFrames

\* the last fill call started on the first byte of a header block of which
\* the file holds fewer than header_size bytes
TruncatedHeaderAtEntry ==
    /\ last.op = "on_data" /\ ~last.ar0_before
    /\ last.pos0 > 0 /\ last.pos0 < Len(reader.file)
    /\ reader.file[last.pos0] = "D"
    /\ \A i \in (last.pos0 + 1)..Len(reader.file) : reader.file[i] = "H"
    /\ Len(reader.file) - last.pos0 < Len(header_buf)

\* C9: a fill call that finds the file ending inside a header block raises
\* IOError and reports no frames.
C9_Claim ==
    TruncatedHeaderAtEntry => (last.err = "IOError" /\ last.ret = 0)

\* C10: when the header's NBITS is not one of 4, 8, 16, 32, 64, on_sequence
\* raises, emits no output header, and leaves already_read_header as it was,
\* so no fill call follows on that stream.
C10_InvalidNBits ==
    (last.op = "on_sequence" /\ last.nbits \notin {4, 8, 16, 32, 64}) =>
        /\ last.err = "AssertionError"
        /\ ~last.emitted
        /\ already_read_header = last.arh_before
        /\ stage = "stopped"
        /\ ~ENABLED on_data

C10_Witness ==
    /\ last.op = "on_sequence" /\ last.nbits = 12
    /\ last.err = "AssertionError" /\ already_read_header = "unset"

\* C17: on one stream the block closes the file at most once, and only in a
\* fill call whose data read ends inside a frame, which also sets
\* always_return_0; a fill call made after the close reads nothing from the
\* closed file and raises nothing.
C17_SingleClose ==
    /\ nclose <= 1
    /\ (stage \in {"streaming", "stopped"} /\ reader.closed) =>
          (nclose = 1 /\ always_return_0 /\ terminated)
    /\ (last.op = "on_data" /\ ~last.closed_before /\ reader.closed) =>
          (last.cause = "short" /\ last.nbyte % frame_nbyte # 0)
    /\ (last.op = "on_data" /\ last.closed_before) =>
          /\ last.err = "none"
          /\ last.cause = "exhausted"
          /\ last.nbyte = 0 /\ last.hskip = 0
          /\ reader.pos = last.pos0

C17_Witness ==
    /\ last.op = "on_data" /\ last.closed_before
    /\ nclose = 1 /\ last.cause = "exhausted"

\* ---- properties of the derivation ----------------------------------------
\* the derivation has run on a header that holds every required key, with
\* NBITS one of the bit widths and a bandwidth that is not zero
ValidHeaderDerived ==
    /\ hpc = "done"
    /\ RequiredKeys \subseteq DOMAIN ihdr
    /\ ihdr["NBITS"].n \in {4, 8, 16, 32, 64}
    /\ ihdr["OBSBW"].n # 0

\* the only output header returned
TheOhdr == oheaders.oheaders[1]

\* C11: for every valid header, whatever optional keys it holds, the
\* derivation raises nothing and returns a tensor whose shape, labels, scales
\* and units each have 4 entries.
C11_Claim ==
    ValidHeaderDerived =>
        /\ oheaders.err = "none"
        /\ Len(oheaders.oheaders) = 1
        /\ Len(TheOhdr.tensor.shape) = 4
        /\ Len(TheOhdr.tensor.labels) = 4
        /\ Len(TheOhdr.tensor.scales) = 4
        /\ Len(TheOhdr.tensor.units) = 4

\* the output header's field for each optional key that is passed through
PassedThrough ==
    { <<"AZ", TheOhdr.az_start>>, <<"ZA", TheOhdr.za_start>>,
      <<"DEC", TheOhdr.dej>>, <<"SRC_NAME", TheOhdr.source_name>>,
      <<"CHAN_DM", TheOhdr.refdm>>, <<"TELESCOP", TheOhdr.telescope>>,
      <<"BACKEND", TheOhdr.machine>> }

\* C12: an absent optional key other than RA gives a null field and no
\* failure; an absent RA makes the derivation fail only if AZ, ZA or DEC is
\* present; a present RA gives raj = RA * 24 / 360.
C12_Claim ==
    ValidHeaderDerived =>
        /\ ("RA" \in DOMAIN ihdr \/ DOMAIN ihdr \cap {"AZ", "ZA", "DEC"} = {})
              => oheaders.err = "none"
        /\ oheaders.err = "none" =>
              /\ \A f \in PassedThrough :
                    f[2] = IF f[1] \in DOMAIN ihdr THEN ihdr[f[1]]
                           ELSE [t |-> "None"]
              /\ "RA" \in DOMAIN ihdr =>
                    /\ TheOhdr.raj.t = "num"
                    /\ TheOhdr.raj.n * 360 * ihdr["RA"].d
                          = 24 * ihdr["RA"].n * TheOhdr.raj.d

\* C16: for a valid header with OBSBW < 0 from which an output header is
\* derived, the step of the channel axis is OBSBW / OBSNCHAN and negative,
\* the step of the fine_time axis is negative, and the step of the time
\* (frame) axis is abs(dt) * NTIME, which is positive.
C16_SignPropagation ==
    (ValidHeaderDerived /\ ihdr["OBSBW"].n < 0 /\ oheaders.err = "none") =>
        LET sc == TheOhdr.tensor.scales
            df == sc[2][2]
            dt == sc[3][2]
            step == sc[1][2]
            bw == ihdr["OBSBW"]
            nchan == ihdr["OBSNCHAN"]
            ntime == ihdr["NTIME"]
        IN /\ df.n < 0 /\ df.d > 0
           /\ df.n * nchan.n * bw.d = bw.n * nchan.d * df.d
           /\ dt.n < 0 /\ dt.d > 0
           /\ step.n > 0 /\ step.d > 0
           /\ step.n * dt.d * ntime.d = (-dt.n) * ntime.n * step.d

C16_Witness ==
    /\ ValidHeaderDerived /\ ihdr["OBSBW"].n = -1 /\ ihdr["NTIME"].n = 4
    /\ oheaders.err = "none"
    /\ TheOhdr.tensor.scales[2][2].n < 0
    /\ TheOhdr.tensor.scales[1][2].n > 0

\* ---- properties of GrabFirstBlock ----------------------------------------
\* on_sequence has returned a header
SequenceDone == gpc \in {"sequence", "spans", "data"} /\ g_ohdr # 0

\* C13: the header on_sequence returns equals the input header except that
\* the extent of axis 3 is 1; it shares no dict or list with the input
\* header, and the input header has the value it had before the call.
C13_DeepCopyAxis3 ==
    SequenceDone =>
        LET i == HeaderValue(heap, iseq_header)
            o == HeaderValue(heap, g_ohdr)
        IN /\ o = [iseq_header0 EXCEPT !.tensor.shape[4] = 1]
           /\ i = iseq_header0
           /\ HeaderAddrs(heap, g_ohdr) \cap HeaderAddrs(heap, iseq_header) = {}

C13_Witness ==
    /\ SequenceDone /\ gpc = "spans" /\ ispan.shape[4] = 2
    /\ HeaderValue(heap, iseq_header).tensor.shape[4] = 2
    /\ HeaderValue(heap, g_ohdr).tensor.shape[4] = 1

\* the output span has the shape of the input span with extent 1 on axis 3
OutputShapeMatches == ospan.shape = [ispan.shape EXCEPT ![4] = 1]

\* the output span has the extents of the input span except on axis 3, where
\* its extent is not 1 and not more than the input's
OutputAxis3NotNarrowed ==
    /\ \A a \in 1..3 : ospan.shape[a] = ispan.shape[a]
    /\ ospan.shape[4] # 1 /\ ospan.shape[4] <= ispan.shape[4]

\* C14: when the output span's shape is not the input's with extent 1 on
\* axis 3, on_data fails and writes nothing to the output span; stated for
\* the output spans that lie within the input array.
C14_Claim ==
    (gpc = "data" /\ OutputAxis3NotNarrowed) =>
        /\ glast.err # "none"
        /\ ospan.data = Stale(ospan.shape)

C18_Claim ==
    SequenceDone =>
        HeaderValue(heap, g_ohdr).tensor.shape =
            [iseq_header0.tensor.shape EXCEPT ![specified_axis + 1] = 1]
====
